---- MODULE Spec2Model ----
(***************************************************************************)
(* bigint-buffer2: conversion between BigInt word arrays (u64 words,       *)
(* least-significant word first) and byte buffers of a fixed width.        *)
(*                                                                         *)
(* Representation.  A byte is a number in 0..255.  A u64 word is the       *)
(* sequence of its 8 bytes, least-significant byte first, so that every    *)
(* 64-bit operation of the code (from_be_bytes, to_le_bytes, <<, |, &, !,  *)
(* overflowing_add) is computed exactly: no number in the model exceeds    *)
(* 511.  A byte buffer and a word array are sequences; Rust's 0-based      *)
(* index i is the TLA+ index i + 1.  A function that can panic returns a   *)
(* record [ok, v]: ok = FALSE is the panic.                                *)
(***************************************************************************)
EXTENDS Integers, Sequences, FiniteSets, TLC

\* ------------------------------------------------------------- bounds

\* longest word array handed to an encoder or to twos_complement
MaxWords == 3
\* longest word array of a BigInt handed to a napi entry point
MaxNapiWords == 2
\* largest width (destination length) in bytes
MaxWidth == 26
\* decoder inputs: every buffer over ShortBytes up to this length ...
MaxShort == 4
\* ... and zero padding of up to MaxPad bytes around up to MaxSig
\* significant bytes
MaxPad == 8
MaxSig == 17
\* the most zero words appended to a word array
MaxZeros == 2

\* ------------------------------------------------------ machine words

\* size_of::<u64>(): the 8 of every chunk, slice and division of the code
WordBytes == 8
\* u8::MAX
ByteMax == 255

Min(a, b) == IF a < b THEN a ELSE b

Ok(x) == [ok |-> TRUE, v |-> x]
Panic == [ok |-> FALSE, v |-> <<>>]

\* the rest of a function after a step that may have panicked
Then(r, Rest(_)) == IF r.ok THEN Rest(r.v) ELSE Panic

\* a function on 1..n as the tuple of its values (the same value,
\* computed once)
Tuple(f) == SubSeq(f, 1, Len(f))

\* v, evaluated: the head of a loop asks for the value the last iteration
\* left behind, so that TLC computes the iterations one by one rather
\* than all together, nested in each other, when the loop ends
Settled(v) == v = v

Zeros(n) == Tuple([j \in 1..n |-> 0])
Reverse(s) == Tuple([j \in 1..Len(s) |-> s[Len(s) + 1 - j]])

\* &s[a..b]: the caller has checked 0 <= a <= b <= len
Slice(s, a, b) == SubSeq(s, a + 1, b)

\* 0u64
ZeroWord == Zeros(WordBytes)

\* bit i (0 = lowest) of a byte
Bit(b, i) == (b \div (2 ^ i)) % 2

\* a | b and a & b on bytes
Or8(a, b) ==
    LET bit(i) == IF Bit(a, i) = 1 \/ Bit(b, i) = 1 THEN 2 ^ i ELSE 0
    IN  bit(0) + bit(1) + bit(2) + bit(3) + bit(4) + bit(5) + bit(6) + bit(7)

And8(a, b) ==
    LET bit(i) == IF Bit(a, i) = 1 /\ Bit(b, i) = 1 THEN 2 ^ i ELSE 0
    IN  bit(0) + bit(1) + bit(2) + bit(3) + bit(4) + bit(5) + bit(6) + bit(7)

\* u64::from_be_bytes / from_le_bytes of an 8-byte chunk
FromBeBytes(chunk) == Reverse(chunk)
FromLeBytes(chunk) == chunk

\* u64::to_be_bytes / to_le_bytes
ToBeBytes(word) == Reverse(word)
ToLeBytes(word) == word

\* a faulty variant: word | (byte as u64), the shift forgotten
ShlOr_noshift(word, byte) ==
    Tuple([j \in 1..WordBytes |-> IF j = 1 THEN Or8(word[1], byte) ELSE word[j]])

\* (word << 8) | (byte as u64): the top byte is shifted out
ShlOr(word, byte) ==
    Tuple([j \in 1..WordBytes |-> IF j = 1 THEN Or8(0, byte) ELSE word[j - 1]])

\* word | ((byte as u64) << (i * 8)), i < 8
OrShifted(word, byte, i) ==
    Tuple([j \in 1..WordBytes |->
             IF j = i + 1 THEN Or8(word[j], byte) ELSE word[j]])

\* ------------------------------------------------------------ decoder

\* a faulty variant: the leading zero bytes are not skipped
FirstNonzero_none(bytes) == 0

\* bytes.iter().position(|&b| b != 0).unwrap_or(bytes.len())
FirstNonzero(bytes) ==
    IF \E j \in 1..Len(bytes) : bytes[j] # 0
    THEN (CHOOSE j \in 1..Len(bytes) :
            bytes[j] # 0 /\ \A h \in 1..(j - 1) : bytes[h] = 0) - 1
    ELSE Len(bytes)

\* a faulty variant: the trailing zero bytes are not dropped
LastNonzero_all(bytes) == Len(bytes)

\* bytes.iter().rposition(|&b| b != 0).map(|i| i + 1).unwrap_or(0)
LastNonzero(bytes) ==
    IF \E j \in 1..Len(bytes) : bytes[j] # 0
    THEN CHOOSE j \in 1..Len(bytes) :
            bytes[j] # 0 /\ \A h \in (j + 1)..Len(bytes) : bytes[h] = 0
    ELSE 0

\* the remainder loop of be_bytes_to_words, from byte index i on
RECURSIVE BeRemainder(_, _, _)
BeRemainder(remainder, word, i) ==
    IF Settled(word) /\ i >= Len(remainder) THEN word
    ELSE BeRemainder(remainder, ShlOr(word, remainder[i + 1]), i + 1)

\* the remainder loop of le_bytes_to_words
RECURSIVE LeRemainder(_, _, _)
LeRemainder(remainder, word, i) ==
    IF Settled(word) /\ i >= Len(remainder) THEN word
    ELSE LeRemainder(remainder, OrShifted(word, remainder[i + 1], i), i + 1)

\* what the decoder does with the significant bytes (big-endian):
\* rchunks_exact(8) from the end, then the remainder at the front
BeSignificantToWords(sig) ==
    LET n      == Len(sig)
        chunks == n \div WordBytes
        rem    == n % WordBytes
        full   == Tuple([c \in 1..chunks |->
                     FromBeBytes(Slice(sig, n - c * WordBytes,
                                       n - (c - 1) * WordBytes))])
    IN  IF rem # 0
        THEN Append(full, BeRemainder(Slice(sig, 0, rem), ZeroWord, 0))
        ELSE full

\* chunks_exact(8) from the start, then the remainder at the end
LeSignificantToWords(sig) ==
    LET n      == Len(sig)
        chunks == n \div WordBytes
        rem    == n % WordBytes
        full   == Tuple([c \in 1..chunks |->
                     FromLeBytes(Slice(sig, (c - 1) * WordBytes,
                                       c * WordBytes))])
    IN  IF rem # 0
        THEN Append(full, LeRemainder(Slice(sig, n - rem, n), ZeroWord, 0))
        ELSE full

be_bytes_to_words(bytes) ==
    IF Len(bytes) = 0 THEN Ok(<<>>)
    ELSE IF bytes[1] # 0 THEN Ok(BeSignificantToWords(bytes))
    ELSE LET first_nonzero == FirstNonzero(bytes)
         IN  IF first_nonzero = Len(bytes) THEN Ok(<<>>)
             ELSE Ok(BeSignificantToWords(
                        Slice(bytes, first_nonzero, Len(bytes))))

le_bytes_to_words(bytes) ==
    IF Len(bytes) = 0 THEN Ok(<<>>)
    ELSE IF bytes[Len(bytes)] # 0 THEN Ok(LeSignificantToWords(bytes))
    ELSE LET last_nonzero == LastNonzero(bytes)
         IN  IF last_nonzero = 0 THEN Ok(<<>>)
             ELSE Ok(LeSignificantToWords(Slice(bytes, 0, last_nonzero)))

\* ------------------------------------------------------------ encoder

\* a faulty variant: the destination is not zeroed
FillZero_skip(dest) == dest

\* dest.fill(0)
FillZero(dest) == Zeros(Len(dest))

\* dest[start..start + src.len()].copy_from_slice(src): the slice index
\* panics when the range leaves dest (a negative start is the usize
\* underflow of its computation)
CopyFromSlice(dest, start, src) ==
    IF start < 0 \/ start + Len(src) > Len(dest) THEN Panic
    ELSE Ok(SubSeq(dest, 1, start) \o src
            \o SubSeq(dest, start + Len(src) + 1, Len(dest)))

\* a faulty variant: every word is written, whatever the width holds
WordsToWrite_nomin(full_words, len) == len

\* full_words.min(words.len())
WordsToWrite(full_words, len) == Min(full_words, len)

\* a faulty variant: the words are laid out front to back
BeDestStart_front(width, i) == i * WordBytes

\* where word i goes in a big-endian / little-endian destination
BeDestStart(width, i) == width - (i + 1) * WordBytes
LeDestStart(width, i) == i * WordBytes

\* the bytes of the partial word that are copied:
\* &word_bytes[src_start..] with src_start = 8 - partial_bytes (BE),
\* &word_bytes[..partial_bytes] (LE)
\* a faulty variant: the high bytes of the partial word are copied
BePartialSrc_high(word_bytes, partial_bytes) ==
    Slice(word_bytes, 0, partial_bytes)

BePartialSrc(word_bytes, partial_bytes) ==
    Slice(word_bytes, WordBytes - partial_bytes, WordBytes)
\* a faulty variant: the high bytes of the partial word are copied
LePartialSrc_high(word_bytes, partial_bytes) ==
    Slice(word_bytes, WordBytes - partial_bytes, WordBytes)

LePartialSrc(word_bytes, partial_bytes) ==
    Slice(word_bytes, 0, partial_bytes)

\* for i in i..n { dest[dest_start..dest_start + 8] = words[i].to_be_bytes() }
RECURSIVE BeFullWords(_, _, _, _)
BeFullWords(words, dest, i, n) ==
    IF i >= n THEN Ok(dest)
    ELSE IF i >= Len(words) THEN Panic
    ELSE Then(CopyFromSlice(dest, BeDestStart(Len(dest), i),
                            ToBeBytes(words[i + 1])),
              LAMBDA d : BeFullWords(words, d, i + 1, n))

RECURSIVE LeFullWords(_, _, _, _)
LeFullWords(words, dest, i, n) ==
    IF i >= n THEN Ok(dest)
    ELSE IF i >= Len(words) THEN Panic
    ELSE Then(CopyFromSlice(dest, LeDestStart(Len(dest), i),
                            ToLeBytes(words[i + 1])),
              LAMBDA d : LeFullWords(words, d, i + 1, n))

words_to_be_bytes_into(words, dest) ==
    LET width == Len(dest) IN
    IF width = 0 THEN Ok(dest)
    ELSE IF Len(words) = 0 THEN Ok(FillZero(dest))
    ELSE
      LET full_words     == width \div WordBytes
          partial_bytes  == width % WordBytes
          words_to_write == WordsToWrite(full_words, Len(words))
      IN  Then(BeFullWords(words, FillZero(dest), 0, words_to_write),
               LAMBDA d :
                 IF partial_bytes > 0 /\ words_to_write < Len(words)
                 THEN CopyFromSlice(d, 0,
                          BePartialSrc(ToBeBytes(words[words_to_write + 1]),
                                       partial_bytes))
                 ELSE Ok(d))

words_to_le_bytes_into(words, dest) ==
    LET width == Len(dest) IN
    IF width = 0 THEN Ok(dest)
    ELSE IF Len(words) = 0 THEN Ok(FillZero(dest))
    ELSE
      LET full_words     == width \div WordBytes
          partial_bytes  == width % WordBytes
          words_to_write == WordsToWrite(full_words, Len(words))
      IN  Then(LeFullWords(words, FillZero(dest), 0, words_to_write),
               LAMBDA d :
                 IF partial_bytes > 0 /\ words_to_write < Len(words)
                 THEN CopyFromSlice(d, words_to_write * WordBytes,
                          LePartialSrc(ToLeBytes(words[words_to_write + 1]),
                                       partial_bytes))
                 ELSE Ok(d))

\* vec![0u8; width], then the in-place encoder
words_to_be_bytes(words, width) == words_to_be_bytes_into(words, Zeros(width))
words_to_le_bytes(words, width) == words_to_le_bytes_into(words, Zeros(width))

\* --------------------------------------------------- two's complement

\* !word
NotWord(word) == Tuple([j \in 1..WordBytes |-> ByteMax - word[j]])

\* the carry into byte j (1-based) of word + carry
RECURSIVE CarryInto(_, _, _)
CarryInto(word, carry, j) ==
    IF j = 1 THEN carry
    ELSE IF word[j - 1] + CarryInto(word, carry, j - 1) > ByteMax THEN 1 ELSE 0

\* word.overflowing_add(carry)
OverflowingAdd(word, carry) ==
    [sum      |-> Tuple([j \in 1..WordBytes |->
                     (word[j] + CarryInto(word, carry, j)) % (ByteMax + 1)]),
     overflow |-> CarryInto(word, carry, WordBytes + 1) = 1]

\* (1u64 << extra_bits) - 1, 0 < extra_bits < 64
MaskWord(extra_bits) ==
    Tuple([j \in 1..WordBytes |->
       LET low == 8 * (j - 1)
       IN  IF extra_bits >= low + 8 THEN ByteMax
           ELSE IF extra_bits <= low THEN 0
           ELSE 2 ^ (extra_bits - low) - 1])

\* word & mask
AndWord(word, mask) ==
    Tuple([j \in 1..WordBytes |-> And8(word[j], mask[j])])

\* a faulty variant: result[i] = word without the test i < num_words
CopyWords_unguarded(words, num_words) ==
    IF Len(words) > num_words THEN Panic
    ELSE Ok(Tuple([j \in 1..num_words |->
                     IF j <= Len(words) THEN words[j] ELSE ZeroWord]))

\* a faulty variant: of more words than num_words the last ones are kept
CopyWords_last(words, num_words) ==
    LET skip == IF Len(words) > num_words THEN Len(words) - num_words ELSE 0
    IN  Ok(Tuple([j \in 1..num_words |->
                    IF j + skip <= Len(words) THEN words[j + skip]
                    ELSE ZeroWord]))

\* "Copy original words": result[i] = word for every i < num_words
CopyWords(words, num_words) ==
    Ok(Tuple([j \in 1..num_words |->
                IF j <= Len(words) THEN words[j] ELSE ZeroWord]))

\* "Invert all bits"
InvertAll(result) == Tuple([j \in 1..Len(result) |-> NotWord(result[j])])

\* a faulty variant: 1 is added to the lowest word and its carry is lost
AddCarry_nocarry(result, i, carry) ==
    IF i >= Len(result) THEN result
    ELSE [result EXCEPT ![i + 1] = OverflowingAdd(@, carry).sum]

\* "Add 1 (with carry propagation)", from word index i on; stops at the
\* first word that produces no carry
RECURSIVE AddCarry(_, _, _)
AddCarry(result, i, carry) ==
    IF i >= Len(result) THEN result
    ELSE LET r    == OverflowingAdd(result[i + 1], carry)
             next == [result EXCEPT ![i + 1] = r.sum]
         IN  IF r.overflow THEN AddCarry(next, i + 1, 1) ELSE next

\* a faulty variant: the last word is left unmasked
MaskLast_none(result, width) == result

\* "Mask the last word if width is not a multiple of 8"
MaskLast(result, width) ==
    LET extra_bits == (width * 8) % 64
    IN  IF extra_bits # 0 /\ Len(result) # 0
        THEN [result EXCEPT ![Len(result)] = AndWord(@, MaskWord(extra_bits))]
        ELSE result

twos_complement(words, width) ==
    IF Len(words) = 0 \/ width = 0 THEN Ok(<<>>)
    ELSE Then(CopyWords(words, (width + 7) \div WordBytes),
              LAMBDA result :
                Ok(MaskLast(AddCarry(InvertAll(result), 0, 1), width)))

\* ---------------------------------------------------- napi entry points

\* JavaScript's BigInt as napi hands it over: sign_bit and words
BigInt(sign_bit, words) == [sign_bit |-> sign_bit, words |-> words]

\* BigInt::from(0i64)
BigIntZero == BigInt(FALSE, <<ZeroWord>>)

\* a faulty variant: the sign flag is not looked at
IsNegative_anysign(num) == Len(num.words) # 0

\* num.sign_bit && !num.words.is_empty()
IsNegative(num) == num.sign_bit /\ Len(num.words) # 0

\* the private copy of twos_complement in the napi crate
napi_twos_complement(words, width) == twos_complement(words, width)

\* what twos_complement is called with
TcCall(num, width) == <<[words |-> num.words, width |-> width]>>

\* the words an encode entry point serializes ...
SignedWords(num, width) ==
    IF IsNegative(num) THEN napi_twos_complement(num.words, width)
    ELSE Ok(num.words)

\* ... and the calls of twos_complement it makes for them
SignedCalls(num, width) ==
    IF IsNegative(num) THEN TcCall(num, width) ELSE <<>>

\* a call's outcome: the buffer it returns or leaves behind, the BigInt
\* it returns, the twos_complement calls it made and the offsets it
\* wrote through a raw pointer
Outcome(ok, buffer, ret, tc, writes) ==
    [ok |-> ok, buffer |-> buffer, ret |-> ret, tc |-> tc, writes |-> writes]

NoBigInt == BigInt(FALSE, <<>>)

\* the outcome of a decode / an encode entry point
Decoded(r, buffer) ==
    Outcome(r.ok, buffer,
            IF Len(r.v) = 0 THEN BigIntZero ELSE BigInt(FALSE, r.v),
            <<>>, <<>>)
Encoded(r, tc) == Outcome(r.ok, r.v, NoBigInt, tc, <<>>)

to_bigint_be(buffer) == Decoded(be_bytes_to_words(buffer), buffer)

to_bigint_le(buffer) == Decoded(le_bytes_to_words(buffer), buffer)

to_buffer_be(num, width) ==
    Encoded(Then(SignedWords(num, width),
                 LAMBDA w : words_to_be_bytes(w, width)),
            SignedCalls(num, width))

to_buffer_le(num, width) ==
    Encoded(Then(SignedWords(num, width),
                 LAMBDA w : words_to_le_bytes(w, width)),
            SignedCalls(num, width))

to_buffer_be_into(num, dest) ==
    LET width == Len(dest) IN
    IF width = 0 THEN Encoded(Ok(dest), <<>>)
    ELSE IF ~num.sign_bit \/ Len(num.words) = 0
    THEN Encoded(words_to_be_bytes_into(num.words, dest), <<>>)
    ELSE Encoded(Then(napi_twos_complement(num.words, width),
                      LAMBDA w : words_to_be_bytes_into(w, dest)),
                 TcCall(num, width))

to_buffer_le_into(num, dest) ==
    LET width == Len(dest) IN
    IF width = 0 THEN Encoded(Ok(dest), <<>>)
    ELSE IF ~num.sign_bit \/ Len(num.words) = 0
    THEN Encoded(words_to_le_bytes_into(num.words, dest), <<>>)
    ELSE Encoded(Then(napi_twos_complement(num.words, width),
                      LAMBDA w : words_to_le_bytes_into(w, dest)),
                 TcCall(num, width))

\* ------------------------------------------------------- fast writers

\* the memory behind the destination and the offsets written so far
Mem(buffer, writes) == [buffer |-> buffer, writes |-> writes]

\* std::ptr::write_volatile(dest_ptr.add(off), byte): a write outside
\* the destination lands in memory the buffer does not own and is only
\* recorded
WriteVolatile(mem, off, byte) ==
    Mem(IF off >= 0 /\ off < Len(mem.buffer)
        THEN [mem.buffer EXCEPT ![off + 1] = byte] ELSE mem.buffer,
        Append(mem.writes, off))

\* for i in 0..width { write_volatile(dest_ptr.add(i), 0) }
ZeroVolatile(mem, width) ==
    Mem(Tuple([j \in 1..Len(mem.buffer) |->
                 IF j <= width THEN 0 ELSE mem.buffer[j]]),
        mem.writes \o Tuple([j \in 1..width |-> j - 1]))

\* where the two nested loops of a fast writer stand: the memory, pos,
\* and whether the inner loop has returned from the function
Loop(mem, pos, returned) == [mem |-> mem, pos |-> pos, returned |-> returned]

\* a faulty variant: the bytes of a word are visited high to low
FastWordBytes_be(word) == ToBeBytes(word)

\* let word_bytes = word.to_le_bytes()
FastWordBytes(word) == ToLeBytes(word)

\* a faulty variant: the loop does not return when pos is 0
RECURSIVE BeFastWord_unchecked(_, _, _)
BeFastWord_unchecked(word_bytes, st, b) ==
    IF b >= Len(word_bytes) THEN st
    ELSE BeFastWord_unchecked(word_bytes,
                    Loop(WriteVolatile(st.mem, st.pos - 1, word_bytes[b + 1]),
                         st.pos - 1, FALSE),
                    b + 1)

\* for &byte in word_bytes.iter() of to_buffer_be_fast, from byte b on
RECURSIVE BeFastWord(_, _, _)
BeFastWord(word_bytes, st, b) ==
    IF b >= Len(word_bytes) THEN st
    ELSE IF st.pos = 0 THEN Loop(st.mem, st.pos, TRUE)
    ELSE BeFastWord(word_bytes,
                    Loop(WriteVolatile(st.mem, st.pos - 1, word_bytes[b + 1]),
                         st.pos - 1, FALSE),
                    b + 1)

\* for &word in words.iter() of to_buffer_be_fast, from word i on
RECURSIVE BeFastLoop(_, _, _)
BeFastLoop(words, st, i) ==
    IF st.returned \/ i >= Len(words) THEN st
    ELSE BeFastLoop(words, BeFastWord(FastWordBytes(words[i + 1]), st, 0),
                    i + 1)

\* for &byte in word_bytes.iter() of to_buffer_le_fast
RECURSIVE LeFastWord(_, _, _, _)
LeFastWord(word_bytes, st, b, width) ==
    IF b >= Len(word_bytes) THEN st
    ELSE IF st.pos >= width THEN Loop(st.mem, st.pos, TRUE)
    ELSE LeFastWord(word_bytes,
                    Loop(WriteVolatile(st.mem, st.pos, word_bytes[b + 1]),
                         st.pos + 1, FALSE),
                    b + 1, width)

\* for &word in words.iter() of to_buffer_le_fast
RECURSIVE LeFastLoop(_, _, _, _)
LeFastLoop(words, st, i, width) ==
    IF st.returned \/ i >= Len(words) THEN st
    ELSE LeFastLoop(words,
                    LeFastWord(FastWordBytes(words[i + 1]), st, 0, width),
                    i + 1, width)

\* the outcome of a fast writer that left mem behind
Written(ok, mem, tc) == Outcome(ok, mem.buffer, NoBigInt, tc, mem.writes)

\* to_buffer_be_fast after the zeroing loop
BeFastWords(num, zeroed, width) ==
    IF Len(num.words) = 0 THEN Written(TRUE, zeroed, <<>>)
    ELSE IF ~SignedWords(num, width).ok
    THEN Written(FALSE, zeroed, SignedCalls(num, width))
    ELSE Written(TRUE,
                 BeFastLoop(SignedWords(num, width).v,
                            Loop(zeroed, width, FALSE), 0).mem,
                 SignedCalls(num, width))

LeFastWords(num, zeroed, width) ==
    IF Len(num.words) = 0 THEN Written(TRUE, zeroed, <<>>)
    ELSE IF ~SignedWords(num, width).ok
    THEN Written(FALSE, zeroed, SignedCalls(num, width))
    ELSE Written(TRUE,
                 LeFastLoop(SignedWords(num, width).v,
                            Loop(zeroed, 0, FALSE), 0, width).mem,
                 SignedCalls(num, width))

to_buffer_be_fast(num, buffer) ==
    LET width == Len(buffer) IN
    IF width = 0 THEN Written(TRUE, Mem(buffer, <<>>), <<>>)
    ELSE BeFastWords(num, ZeroVolatile(Mem(buffer, <<>>), width), width)

to_buffer_le_fast(num, buffer) ==
    LET width == Len(buffer) IN
    IF width = 0 THEN Written(TRUE, Mem(buffer, <<>>), <<>>)
    ELSE LeFastWords(num, ZeroVolatile(Mem(buffer, <<>>), width), width)

\* ------------------------------------------------------------- inputs

\* the words the callers' arrays are built from: 0, 5, 0x123456,
\* 0x0102030405060708, u64::MAX and 1 << 63
SampleWords ==
    { ZeroWord,
      <<5, 0, 0, 0, 0, 0, 0, 0>>,
      <<86, 52, 18, 0, 0, 0, 0, 0>>,
      <<8, 7, 6, 5, 4, 3, 2, 1>>,
      <<255, 255, 255, 255, 255, 255, 255, 255>>,
      <<0, 0, 0, 0, 0, 0, 0, 128>> }

\* every word array of up to MaxWords sample words, canonical or not
WordArrays == UNION { [1..n -> SampleWords] : n \in 0..MaxWords }

\* the BigInts of the napi callers: 0, 5, 0x0102030405060708, u64::MAX
NapiWords ==
    { ZeroWord,
      <<5, 0, 0, 0, 0, 0, 0, 0>>,
      <<8, 7, 6, 5, 4, 3, 2, 1>>,
      <<255, 255, 255, 255, 255, 255, 255, 255>> }
NapiWordArrays == UNION { [1..n -> NapiWords] : n \in 0..MaxNapiWords }

Widths == 0..MaxWidth

\* what a caller-owned destination of length k may hold before the call
PriorKinds == {"zero", "a5", "ff", "ramp"}
GarbageKinds == {"ff", "ramp"}
NapiPriorKinds == {"zero", "a5"}
Prior(kind, k) ==
    LET byte(j) == CASE kind = "zero" -> 0
                     [] kind = "a5"   -> 165
                     [] kind = "ff"   -> ByteMax
                     [] OTHER         -> (37 * j + 1) % (ByteMax + 1)
    IN  Tuple([j \in 1..k |-> byte(j)])

\* decoder inputs: every short buffer over ShortBytes, and n significant
\* bytes of a pattern between a and b zero bytes
ShortBytes == {0, 1, ByteMax}
ShortBuffers == UNION { [1..n -> ShortBytes] : n \in 0..MaxShort }

Patterns == {"count", "ff", "ends"}
Pattern(p, n) ==
    Tuple([j \in 1..n |->
       CASE p = "count" -> j
         [] p = "ff"    -> ByteMax
         [] OTHER       -> IF j = 1 \/ j = n THEN 1 ELSE 0])

PaddedBuffers ==
    { Zeros(a) \o Pattern(p, n) \o Zeros(b) :
        a \in 0..MaxPad, b \in 0..MaxPad, n \in 0..MaxSig, p \in Patterns }

Buffers == ShortBuffers \cup PaddedBuffers

\* -------------------------------------------------------------- state

VARIABLES
    pc,       \* "idle": no call in progress; "done": a call has returned
    op,       \* the function called last
    words,    \* its word array argument
    sign,     \* its sign flag argument (napi BigInt)
    width,    \* its width argument, or the length of its buffer argument
    prior,    \* its buffer argument as it was before the call
    buffer,   \* the buffer it returned, or its buffer argument afterwards
    out,      \* the word array it returned
    ret,      \* the BigInt it returned
    ok,       \* FALSE: it panicked
    tcCalls,  \* the calls of twos_complement it made
    writes    \* the offsets it wrote through a raw pointer

vars == <<pc, op, words, sign, width, prior, buffer, out, ret, ok, tcCalls, writes>>

Init ==
    /\ pc = "idle"
    /\ op = "none"
    /\ words = <<>>
    /\ sign = FALSE
    /\ width = 0
    /\ prior = <<>>
    /\ buffer = <<>>
    /\ out = <<>>
    /\ ret = NoBigInt
    /\ ok = TRUE
    /\ tcCalls = <<>>
    /\ writes = <<>>

\* a call of f with these arguments returned with this result
Returned(f, w, s, k, before, after, o, rt, isok, tc, wr) ==
    /\ pc' = "done"
    /\ op' = f
    /\ words' = w
    /\ sign' = s
    /\ width' = k
    /\ prior' = before
    /\ buffer' = after
    /\ out' = o
    /\ ret' = rt
    /\ ok' = isok
    /\ tcCalls' = tc
    /\ writes' = wr

\* the caller drops the values of the call: nothing survives a call
Return ==
    /\ pc = "done"
    /\ pc' = "idle"
    /\ op' = "none"
    /\ words' = <<>>
    /\ sign' = FALSE
    /\ width' = 0
    /\ prior' = <<>>
    /\ buffer' = <<>>
    /\ out' = <<>>
    /\ ret' = NoBigInt
    /\ ok' = TRUE
    /\ tcCalls' = <<>>
    /\ writes' = <<>>

\* ------------------------------------------------------- core actions
\* Each action is one call from the idle caller: it draws the arguments,
\* binds the call's result (\E r \in {f(..)}) and records both.

Do_be_bytes_to_words ==
    /\ pc = "idle"
    /\ \E b \in Buffers :
         \E r \in {be_bytes_to_words(b)} :
           Returned("be_bytes_to_words", <<>>, FALSE, Len(b), b, b, r.v,
                      NoBigInt, r.ok, <<>>, <<>>)

Do_le_bytes_to_words ==
    /\ pc = "idle"
    /\ \E b \in Buffers :
         \E r \in {le_bytes_to_words(b)} :
           Returned("le_bytes_to_words", <<>>, FALSE, Len(b), b, b, r.v,
                      NoBigInt, r.ok, <<>>, <<>>)

Do_words_to_be_bytes ==
    /\ pc = "idle"
    /\ \E w \in WordArrays, k \in Widths :
         \E r \in {words_to_be_bytes(w, k)} :
           Returned("words_to_be_bytes", w, FALSE, k, <<>>, r.v, <<>>,
                      NoBigInt, r.ok, <<>>, <<>>)

Do_words_to_le_bytes ==
    /\ pc = "idle"
    /\ \E w \in WordArrays, k \in Widths :
         \E r \in {words_to_le_bytes(w, k)} :
           Returned("words_to_le_bytes", w, FALSE, k, <<>>, r.v, <<>>,
                      NoBigInt, r.ok, <<>>, <<>>)

Do_words_to_be_bytes_into ==
    /\ pc = "idle"
    /\ \E w \in WordArrays, k \in Widths, g \in GarbageKinds :
         \E r \in {words_to_be_bytes_into(w, Prior(g, k))} :
           Returned("words_to_be_bytes_into", w, FALSE, k, Prior(g, k), r.v,
                      <<>>, NoBigInt, r.ok, <<>>, <<>>)

Do_words_to_le_bytes_into ==
    /\ pc = "idle"
    /\ \E w \in WordArrays, k \in Widths, g \in GarbageKinds :
         \E r \in {words_to_le_bytes_into(w, Prior(g, k))} :
           Returned("words_to_le_bytes_into", w, FALSE, k, Prior(g, k), r.v,
                      <<>>, NoBigInt, r.ok, <<>>, <<>>)

Do_twos_complement ==
    /\ pc = "idle"
    /\ \E w \in WordArrays, k \in Widths :
         \E r \in {twos_complement(w, k)} :
           Returned("twos_complement", w, FALSE, k, <<>>, <<>>, r.v,
                      NoBigInt, r.ok, <<>>, <<>>)

\* test_roundtrip_be / test_roundtrip_le, for any original and width
Do_roundtrip_be ==
    /\ pc = "idle"
    /\ \E w \in WordArrays, k \in Widths :
         \E bytes \in {words_to_be_bytes(w, k)} :
         \E recovered \in {Then(bytes, LAMBDA b : be_bytes_to_words(b))} :
           Returned("roundtrip_be", w, FALSE, k, <<>>, bytes.v, recovered.v,
                      NoBigInt, recovered.ok, <<>>, <<>>)

Do_roundtrip_le ==
    /\ pc = "idle"
    /\ \E w \in WordArrays, k \in Widths :
         \E bytes \in {words_to_le_bytes(w, k)} :
         \E recovered \in {Then(bytes, LAMBDA b : le_bytes_to_words(b))} :
           Returned("roundtrip_le", w, FALSE, k, <<>>, bytes.v, recovered.v,
                      NoBigInt, recovered.ok, <<>>, <<>>)

\* ------------------------------------------------------- napi actions

Do_to_bigint_be ==
    /\ pc = "idle"
    /\ \E b \in Buffers :
         \E r \in {to_bigint_be(b)} :
           Returned("to_bigint_be", <<>>, FALSE, Len(b), b, r.buffer, <<>>,
                      r.ret, r.ok, r.tc, r.writes)

Do_to_bigint_le ==
    /\ pc = "idle"
    /\ \E b \in Buffers :
         \E r \in {to_bigint_le(b)} :
           Returned("to_bigint_le", <<>>, FALSE, Len(b), b, r.buffer, <<>>,
                      r.ret, r.ok, r.tc, r.writes)

Do_to_buffer_be ==
    /\ pc = "idle"
    /\ \E w \in NapiWordArrays, s \in BOOLEAN, k \in Widths :
         \E r \in {to_buffer_be(BigInt(s, w), k)} :
           Returned("to_buffer_be", w, s, k, <<>>, r.buffer, <<>>,
                      r.ret, r.ok, r.tc, r.writes)

Do_to_buffer_le ==
    /\ pc = "idle"
    /\ \E w \in NapiWordArrays, s \in BOOLEAN, k \in Widths :
         \E r \in {to_buffer_le(BigInt(s, w), k)} :
           Returned("to_buffer_le", w, s, k, <<>>, r.buffer, <<>>,
                      r.ret, r.ok, r.tc, r.writes)

Do_to_buffer_be_into ==
    /\ pc = "idle"
    /\ \E w \in NapiWordArrays, s \in BOOLEAN, k \in Widths, g \in NapiPriorKinds :
         \E r \in {to_buffer_be_into(BigInt(s, w), Prior(g, k))} :
           Returned("to_buffer_be_into", w, s, k, Prior(g, k), r.buffer, <<>>,
                      r.ret, r.ok, r.tc, r.writes)

Do_to_buffer_le_into ==
    /\ pc = "idle"
    /\ \E w \in NapiWordArrays, s \in BOOLEAN, k \in Widths, g \in NapiPriorKinds :
         \E r \in {to_buffer_le_into(BigInt(s, w), Prior(g, k))} :
           Returned("to_buffer_le_into", w, s, k, Prior(g, k), r.buffer, <<>>,
                      r.ret, r.ok, r.tc, r.writes)

Do_to_buffer_be_fast ==
    /\ pc = "idle"
    /\ \E w \in NapiWordArrays, s \in BOOLEAN, k \in Widths, g \in NapiPriorKinds :
         \E r \in {to_buffer_be_fast(BigInt(s, w), Prior(g, k))} :
           Returned("to_buffer_be_fast", w, s, k, Prior(g, k), r.buffer, <<>>,
                      r.ret, r.ok, r.tc, r.writes)

Do_to_buffer_le_fast ==
    /\ pc = "idle"
    /\ \E w \in NapiWordArrays, s \in BOOLEAN, k \in Widths, g \in NapiPriorKinds :
         \E r \in {to_buffer_le_fast(BigInt(s, w), Prior(g, k))} :
           Returned("to_buffer_le_fast", w, s, k, Prior(g, k), r.buffer, <<>>,
                      r.ret, r.ok, r.tc, r.writes)

\* ----------------------------------------------------- specifications

NextDecode == Do_be_bytes_to_words \/ Do_le_bytes_to_words \/ Return
SpecDecode == Init /\ [][NextDecode]_vars

NextEncode ==
    \/ Do_words_to_be_bytes
    \/ Do_words_to_le_bytes
    \/ Do_words_to_be_bytes_into
    \/ Do_words_to_le_bytes_into
    \/ Return
SpecEncode == Init /\ [][NextEncode]_vars

NextRoundTrip == Do_roundtrip_be \/ Do_roundtrip_le \/ Return
SpecRoundTrip == Init /\ [][NextRoundTrip]_vars

NextTwos == Do_twos_complement \/ Return
SpecTwos == Init /\ [][NextTwos]_vars

NextNapi ==
    \/ Do_to_bigint_be
    \/ Do_to_bigint_le
    \/ Do_to_buffer_be
    \/ Do_to_buffer_le
    \/ Do_to_buffer_be_into
    \/ Do_to_buffer_le_into
    \/ Do_to_buffer_be_fast
    \/ Do_to_buffer_le_fast
    \/ Return
SpecNapi == Init /\ [][NextNapi]_vars

\* the callers of the functions that take a word array
NextWords ==
    \/ Do_words_to_be_bytes
    \/ Do_words_to_le_bytes
    \/ Do_twos_complement
    \/ Return
SpecWords == Init /\ [][NextWords]_vars

\* the callers of the allocating encoders and of the decoders
NextMirror ==
    \/ Do_words_to_be_bytes
    \/ Do_words_to_le_bytes
    \/ Do_be_bytes_to_words
    \/ Do_le_bytes_to_words
    \/ Return
SpecMirror == Init /\ [][NextMirror]_vars

Next == NextDecode \/ NextEncode \/ NextRoundTrip \/ NextTwos \/ NextNapi
Spec == Init /\ [][Next]_vars

\* ------------------------------------------------------- integer values
\* value(words) = sum of words[i] * 2^(64 * i) is written in base 256:
\* an unsigned integer is the sequence of its digits, least significant
\* first, and two integers are equal when their digits are, a missing
\* high digit counting as 0.

\* the digits of value(ws)
Digits(ws) ==
    Tuple([t \in 1..(Len(ws) * WordBytes) |->
             ws[((t - 1) \div WordBytes) + 1][((t - 1) % WordBytes) + 1]])

DigitAt(d, j) == IF j <= Len(d) THEN d[j] ELSE 0

\* the integers with digits d and e are equal
SameValue(d, e) ==
    \A j \in 1..(IF Len(d) > Len(e) THEN Len(d) ELSE Len(e)) :
        DigitAt(d, j) = DigitAt(e, j)

\* the low k digits of the integer with digits d
LowDigits(d, k) == Tuple([j \in 1..k |-> DigitAt(d, j)])

\* the k digits of value(ws) mod 2^(8 * k)
ValueMod(ws, k) == LowDigits(Digits(ws), k)

\* the integer with digits d is below 2^(8 * k)
Below(d, k) == \A j \in 1..Len(d) : j > k => d[j] = 0

\* value(ws) < 2^(8 * k)
Fits(ws, k) == Below(Digits(ws), k)

\* ws without its high-order zero words
Canonicalize(ws) ==
    LET nonzero == {i \in 1..Len(ws) : ws[i] # ZeroWord}
    IN  IF nonzero = {} THEN <<>>
        ELSE SubSeq(ws, 1, CHOOSE i \in nonzero : \A h \in nonzero : h <= i)

\* the digits j.. of d + e + carry are all 0 (the carry out of the
\* highest digit is the 2^(8 * k) dropped by mod)
RECURSIVE SumIsZeroFrom(_, _, _, _)
SumIsZeroFrom(d, e, j, carry) ==
    IF j > Len(d) THEN TRUE
    ELSE /\ (d[j] + e[j] + carry) % (ByteMax + 1) = 0
         /\ SumIsZeroFrom(d, e, j + 1, (d[j] + e[j] + carry) \div (ByteMax + 1))

\* d + e = 0 mod 2^(8 * k) for two k-digit integers: e is the one
\* k-digit integer equal to (2^(8 * k) - d) mod 2^(8 * k)
SumIsZero(d, e) == Len(d) = Len(e) /\ SumIsZeroFrom(d, e, 1, 0)

\* the encoder returned r, the little-endian (big-endian) bytes of the
\* negation of the integer with digits d
IsNegation(d, r) == r.ok /\ SumIsZero(d, r.v)
IsNegationBe(d, r) == r.ok /\ SumIsZero(d, Reverse(r.v))

Called(f) == pc = "done" /\ op = f

\* the number of significant bytes of the decoder's input
BeSignificant(bytes) ==
    Cardinality({j \in 1..Len(bytes) : \E h \in 1..j : bytes[h] # 0})
LeSignificant(bytes) ==
    Cardinality({j \in 1..Len(bytes) : \E h \in j..Len(bytes) : bytes[h] # 0})

CeilDiv8(n) == (n + 7) \div 8

\* --------------------------------------------------------------- claims

\* C7: the word array the decoder returns has the value of its input
\* read as an unsigned integer, big-endian for be_bytes_to_words and
\* little-endian for le_bytes_to_words, for buffers of every length; the
\* bytes 01..08 decode to [0x0102030405060708] and [0x0807060504030201].
C7_DecoderValue ==
    /\ Called("be_bytes_to_words") =>
          /\ SameValue(Digits(out), Reverse(prior))
          /\ prior = <<1, 2, 3, 4, 5, 6, 7, 8>> =>
                out = << <<8, 7, 6, 5, 4, 3, 2, 1>> >>
    /\ Called("le_bytes_to_words") =>
          /\ SameValue(Digits(out), prior)
          /\ prior = <<1, 2, 3, 4, 5, 6, 7, 8>> =>
                out = << <<1, 2, 3, 4, 5, 6, 7, 8>> >>

\* a big-endian buffer of two full groups and a partial one, decoded
C7_Witness ==
    /\ Called("be_bytes_to_words")
    /\ Len(prior) = 2 * WordBytes + 1
    /\ prior[1] # 0
    /\ Len(out) = 3
    /\ SameValue(Digits(out), Reverse(prior))

\* C8: the decoder never fails; an empty or all-zero buffer decodes to
\* the empty word array; otherwise the result has ceil(N / 8) words for
\* the N bytes from the first non-zero byte on (BE) or up to the last
\* non-zero byte (LE), and a zero byte more in front (BE) or at the end
\* (LE) does not change the result.
C8_ZeroElision ==
    /\ Called("be_bytes_to_words") =>
          /\ ok
          /\ Len(out) = CeilDiv8(BeSignificant(prior))
          /\ (\A j \in 1..Len(prior) : prior[j] = 0) => out = <<>>
          /\ (Len(prior) > 0 /\ prior[1] = 0) =>
                out = be_bytes_to_words(Tail(prior)).v
    /\ Called("le_bytes_to_words") =>
          /\ ok
          /\ Len(out) = CeilDiv8(LeSignificant(prior))
          /\ (\A j \in 1..Len(prior) : prior[j] = 0) => out = <<>>
          /\ (Len(prior) > 0 /\ prior[Len(prior)] = 0) =>
                out = le_bytes_to_words(SubSeq(prior, 1, Len(prior) - 1)).v

\* eight significant bytes behind a whole word of zero bytes
C8_Witness ==
    /\ Called("be_bytes_to_words")
    /\ Len(prior) = 2 * WordBytes
    /\ prior[1] = 0
    /\ BeSignificant(prior) = WordBytes
    /\ Len(out) = 1

\* C1: encoding a word array at a width that holds its value and
\* decoding the bytes again gives the array without its high-order zero
\* words (the empty array for value 0), big-endian and little-endian.
C1_RoundTrip ==
    ((Called("roundtrip_be") \/ Called("roundtrip_le")) /\ Fits(words, width))
        => (ok /\ out = Canonicalize(words))

\* a non-canonical array round-tripped at a width that is no multiple of 8
C1_Witness ==
    /\ Called("roundtrip_be")
    /\ Fits(words, width)
    /\ Len(words) = 3
    /\ words[3] = ZeroWord
    /\ width % WordBytes # 0
    /\ Len(out) = 2
    /\ out = Canonicalize(words)

\* C2: the encoders complete for every word array and every width and
\* return exactly width bytes, the empty buffer for width 0.
C2_EncodeTotal ==
    (\/ Called("words_to_be_bytes") \/ Called("words_to_le_bytes")
     \/ Called("words_to_be_bytes_into") \/ Called("words_to_le_bytes_into"))
        => /\ ok
           /\ Len(buffer) = width
           /\ width = 0 => buffer = <<>>

\* more words than the width holds, at a width that is no multiple of 8
C2_Witness ==
    /\ Called("words_to_be_bytes")
    /\ Len(words) * WordBytes > width + WordBytes
    /\ width > WordBytes
    /\ width % WordBytes # 0
    /\ ok
    /\ Len(buffer) = width

\* C3: the bytes an encoder produces, read as an unsigned integer in its
\* byte order, are value(words) mod 2^(8 * width): high bytes beyond the
\* words are zero, bits beyond the width are dropped;
\* [0x123456] at width 2 is [0x34, 0x56] big-endian.
C3_Truncation ==
    /\ (Called("words_to_be_bytes") \/ Called("words_to_be_bytes_into")) =>
          /\ Reverse(buffer) = ValueMod(words, width)
          /\ (words = << <<86, 52, 18, 0, 0, 0, 0, 0>> >> /\ width = 2) =>
                buffer = <<52, 86>>
    /\ (Called("words_to_le_bytes") \/ Called("words_to_le_bytes_into")) =>
          buffer = ValueMod(words, width)

\* the truncation of the unit test
C3_Witness ==
    /\ Called("words_to_be_bytes")
    /\ words = << <<86, 52, 18, 0, 0, 0, 0, 0>> >>
    /\ width = 2
    /\ buffer = <<52, 86>>

\* C6: what the in-place encoders leave in the destination does not
\* depend on what it held: it is what the allocating encoder returns for
\* the same words and the destination's length.
C6_NoStaleBytes ==
    /\ Called("words_to_be_bytes_into") =>
          (ok /\ buffer = words_to_be_bytes(words, Len(prior)).v)
    /\ Called("words_to_le_bytes_into") =>
          (ok /\ buffer = words_to_le_bytes(words, Len(prior)).v)

\* a destination full of 0xFF longer than the words, in place
C6_Witness ==
    /\ Called("words_to_le_bytes_into")
    /\ Len(words) = 1
    /\ words[1] # ZeroWord
    /\ Len(prior) = 2 * WordBytes + 3
    /\ \A j \in 1..Len(prior) : prior[j] = ByteMax
    /\ \A j \in (WordBytes + 1)..Len(buffer) : buffer[j] = 0

\* C4: for a non-empty magnitude and a width k > 0, the words
\* twos_complement returns, encoded at width k, are the bytes of
\* (2^(8 * k) - value(magnitude)) mod 2^(8 * k) in either byte order:
\* added to the magnitude they give 0 mod 2^(8 * k); [5] at width 1
\* gives [0xFB].
C4_TwosComplementValue ==
    (Called("twos_complement") /\ words # <<>> /\ width > 0) =>
        /\ ok
        /\ IsNegation(ValueMod(words, width), words_to_le_bytes(out, width))
        /\ IsNegationBe(ValueMod(words, width), words_to_be_bytes(out, width))
        /\ (words = << <<5, 0, 0, 0, 0, 0, 0, 0>> >> /\ width = 1) =>
              words_to_be_bytes(out, width).v = <<251>>

\* a magnitude of more words than the width holds, its low word 0, at a
\* width that is no multiple of 8: the carry runs into the partial word
C4_Witness ==
    /\ Called("twos_complement")
    /\ Len(words) = 3
    /\ words[1] = ZeroWord
    /\ words[2] # ZeroWord
    /\ width = WordBytes + 3
    /\ Len(out) = 2
    /\ SumIsZero(ValueMod(words, width), words_to_le_bytes(out, width).v)

\* C10: twos_complement never fails, and it returns the empty word array
\* for an empty magnitude and for width 0.
C10_TwosComplementEdges ==
    Called("twos_complement") =>
        /\ ok
        /\ (words = <<>> \/ width = 0) => out = <<>>

\* width 0 with a non-empty magnitude
C10_Witness ==
    /\ Called("twos_complement")
    /\ Len(words) = 2
    /\ width = 0
    /\ ok
    /\ out = <<>>

\* the words the claims expect an encode entry point to serialize
ExpectedWords ==
    IF sign /\ words # <<>> THEN twos_complement(words, width).v ELSE words

\* C5: on a zero-initialized destination the fast writers leave what the
\* allocating encoder returns for the same width and the words, passed
\* through twos_complement when the sign flag is set and they are not
\* empty.
C5_FastParity ==
    /\ (Called("to_buffer_be_fast") /\ prior = Zeros(width)) =>
          (ok /\ buffer = words_to_be_bytes(ExpectedWords, width).v)
    /\ (Called("to_buffer_le_fast") /\ prior = Zeros(width)) =>
          (ok /\ buffer = words_to_le_bytes(ExpectedWords, width).v)

\* a negative BigInt of two words written fast into 11 zero bytes
C5_Witness ==
    /\ Called("to_buffer_be_fast")
    /\ prior = Zeros(width)
    /\ sign
    /\ Len(words) = 2
    /\ words[1] # ZeroWord
    /\ width = WordBytes + 3
    /\ buffer = words_to_be_bytes(ExpectedWords, width).v
    /\ buffer # words_to_be_bytes(words, width).v

EncodeEntryPoints ==
    {"to_buffer_be", "to_buffer_le", "to_buffer_be_into", "to_buffer_le_into",
     "to_buffer_be_fast", "to_buffer_le_fast"}

C11_ResultShape ==
    (Called("twos_complement") /\ words # <<>> /\ width > 0) =>
        /\ Len(out) = CeilDiv8(width)
        /\ Fits(out, width)
        /\ width % WordBytes # 0 =>
              \A j \in ((width % WordBytes) + 1)..WordBytes : out[Len(out)][j] = 0

\* the carry stops in the lowest word, and the inverted high word would
\* have bits above the width were it not masked
C11_Witness ==
    /\ Called("twos_complement")
    /\ Len(words) = 2
    /\ words[1] = <<5, 0, 0, 0, 0, 0, 0, 0>>
    /\ words[2] = <<5, 0, 0, 0, 0, 0, 0, 0>>
    /\ width = WordBytes + 3
    /\ Len(out) = 2
    /\ out[1] = <<251, 255, 255, 255, 255, 255, 255, 255>>
    /\ out[2] = <<250, 255, 255, 0, 0, 0, 0, 0>>

\* the fast writers
FastWriters == {"to_buffer_be_fast", "to_buffer_le_fast"}

\* C12: every offset the fast writers write through the raw pointer, in
\* the zeroing loop and in the word loop, is in [0, k) for a destination
\* of length k, whatever the words and the sign flag; the word loop
\* writes min(k, 8 * number of words) bytes and no more; a destination of
\* length 0 is not written at all.
C12_FastInBounds ==
    (pc = "done" /\ op \in FastWriters) =>
        /\ ok
        /\ \A i \in 1..Len(writes) : writes[i] >= 0 /\ writes[i] < width
        /\ Len(writes) = width + Min(width, WordBytes * Len(ExpectedWords))
        /\ SubSeq(writes, 1, width) = [j \in 1..width |-> j - 1]
        /\ width = 0 => (writes = <<>> /\ buffer = prior)

\* two words for a destination of three bytes: the word loop stops after
\* three bytes
C12_Witness ==
    /\ Called("to_buffer_be_fast")
    /\ Len(words) = 2
    /\ ~sign
    /\ width = 3
    /\ writes = <<0, 1, 2, 2, 1, 0>>

\* z zero words
ZeroWords(z) == Tuple([j \in 1..z |-> ZeroWord])

\* C13: high-order zero words appended to a word array change nothing:
\* the encoders return the same bytes for w and for w with z >= 1 zero
\* words appended, at every width, and so does twos_complement for a
\* non-empty w.
C13_ZeroWordTolerance ==
    \A z \in 1..MaxZeros :
        /\ Called("words_to_be_bytes") =>
              words_to_be_bytes(words \o ZeroWords(z), width) = [ok |-> ok, v |-> buffer]
        /\ Called("words_to_le_bytes") =>
              words_to_le_bytes(words \o ZeroWords(z), width) = [ok |-> ok, v |-> buffer]
        /\ (Called("twos_complement") /\ words # <<>>) =>
              twos_complement(words \o ZeroWords(z), width) = [ok |-> ok, v |-> out]

\* a magnitude of two words at a width of one partial word: with zero
\* words appended the array is longer still than the width holds
C13_Witness ==
    /\ Called("twos_complement")
    /\ Len(words) = 2
    /\ words[2] # ZeroWord
    /\ width = 3
    /\ Len(out) = 1
    /\ twos_complement(words \o ZeroWords(MaxZeros), width).v = out

\* the decoders
Decoders == {"be_bytes_to_words", "le_bytes_to_words"}

\* C14: the word array a decoder returns is empty or its last, most
\* significant word is not zero, for every buffer; also when the number
\* of significant bytes is a multiple of 8.
C14_DecoderCanonical ==
    (pc = "done" /\ op \in Decoders) =>
        (out = <<>> \/ out[Len(out)] # ZeroWord)

\* sixteen significant bytes in front of zero bytes, little-endian: two
\* whole words and no third
C14_Witness ==
    /\ Called("le_bytes_to_words")
    /\ Len(prior) > 2 * WordBytes
    /\ prior[Len(prior)] = 0
    /\ LeSignificant(prior) = 2 * WordBytes
    /\ Len(out) = 2
    /\ out[2] # ZeroWord

\* C15: big-endian and little-endian mirror each other: the bytes
\* words_to_be_bytes returns are those of words_to_le_bytes in reverse
\* order at every width, the partial word of a width that is no multiple
\* of 8 included, and be_bytes_to_words of a buffer is le_bytes_to_words
\* of the reversed buffer.
C15_EndiannessMirror ==
    /\ Called("words_to_be_bytes") =>
          words_to_le_bytes(words, width) = [ok |-> ok, v |-> Reverse(buffer)]
    /\ Called("words_to_le_bytes") =>
          words_to_be_bytes(words, width) = [ok |-> ok, v |-> Reverse(buffer)]
    /\ Called("be_bytes_to_words") =>
          le_bytes_to_words(Reverse(prior)) = [ok |-> ok, v |-> out]
    /\ Called("le_bytes_to_words") =>
          be_bytes_to_words(Reverse(prior)) = [ok |-> ok, v |-> out]

\* a width of one word and three bytes for an array of two words: the
\* partial word is written, and the bytes are no palindrome
C15_Witness ==
    /\ Called("words_to_be_bytes")
    /\ width = WordBytes + 3
    /\ Len(words) = 2
    /\ words[2] = <<8, 7, 6, 5, 4, 3, 2, 1>>
    /\ SubSeq(buffer, 1, 3) = <<6, 7, 8>>
    /\ buffer # Reverse(buffer)
    /\ words_to_le_bytes(words, width).v = Reverse(buffer)

====
